---- MODULE Spec2Model ----
(***************************************************************************)
(* Geotechnical feasibility pipeline (geo_processing.py, app.py).          *)
(*                                                                         *)
(* Geometry is modelled on a transect: a polygon or a contour line is a    *)
(* closed interval <<lo, hi>> of the transect, the empty geometry is <<>>. *)
(* Files hold geographic coordinates in ticks (EPSG:4326); the working CRS *)
(* (EPSG:32610) counts quarter-metres, and one tick is two quarter-metres, *)
(* so every projected coordinate is even and a centroid is exact.          *)
(* Angles are counted in arc-minutes; arctan is tabulated to the degree.   *)
(* An optional value is a sequence: None is <<>>, a value v is <<v>>.      *)
(***************************************************************************)
EXTENDS Integers, Sequences, FiniteSets, TLC

VARIABLES
    fileStatus,   \* reference files on disk: "ok", "unreadable" or "no_column"
    parcels,      \* rows of PROPERTY_FILE
    contours,     \* rows of CONTOUR_FILE
    hazards,      \* rows of each of HAZARD_FILES
    sortKind,     \* how the sort of the running build orders rows of equal key
    session,      \* st.session_state
    pc,           \* position of perform_analysis ("idle": not running)
    local,        \* local variables of perform_analysis
    calls,        \* functions invoked by the current (or last) run, in order
    messages,     \* st.error / st.success outputs of the current (or last) run
    log,          \* logging records of the current (or last) run
    fresh,        \* session keys written since session.coordinates was last written
    exchange      \* last request of perform_analysis to the Gemini model, and the answer

vars == <<fileStatus, parcels, contours, hazards, sortKind, session, pc, local,
          calls, messages, log, fresh, exchange>>

None == <<>>
Some(v) == <<v>>

-----------------------------------------------------------------------------
(* Bounds of the model *)

MaxParcels == 3      \* rows of the parcel dataset
MaxContours == 3     \* rows of the contour dataset
MaxFaults == 1       \* reference files that are unreadable or lack a column
MaxHazardous == 2    \* hazard layers that hold any polygon

-----------------------------------------------------------------------------
(* Program constants, in the units of the model *)

BUFFER_RETRY == 40        \* 10 m
LAKE_BUFFER == 400        \* 100 m
MIN_DIST == 2             \* 0.5 m
MAX_DIST == 4000          \* 1000 m
FLAT_AVG == 300           \* 5 degrees
LAKE_MAX == 900           \* 15 degrees
EXTREME_AVG == 2700       \* 45 degrees
OVERLAP_DEN == 10         \* threshold 0.1 = 1 / 10
STEEP_AVG == 1500         \* 25 degrees

PROPERTY_FILE == "property"
CONTOUR_FILE == "contour"
HazardOrder == <<"erosion", "potential_slide", "seismic", "steep_slope", "watercourse">>
HazardKinds == {HazardOrder[i] : i \in 1..Len(HazardOrder)}
HAZARD_FILES == [k \in HazardKinds |-> k]
Files == {PROPERTY_FILE, CONTOUR_FILE} \cup HazardKinds

-----------------------------------------------------------------------------
(* Geometry *)

Min(a, b) == IF a <= b THEN a ELSE b
Max(a, b) == IF a >= b THEN a ELSE b
Abs(a) == IF a >= 0 THEN a ELSE -a

IsEmpty(g) == g = <<>>

\* GeoSeries.to_crs("EPSG:32610"): ticks to quarter-metres
ToCrs(g) == IF IsEmpty(g) THEN g ELSE <<2 * g[1], 2 * g[2]>>

Intersects(g, h) ==
    /\ ~IsEmpty(g)
    /\ ~IsEmpty(h)
    /\ g[1] <= h[2]
    /\ h[1] <= g[2]

Intersection(g, h) ==
    IF Intersects(g, h) THEN <<Max(g[1], h[1]), Min(g[2], h[2])>> ELSE <<>>

Buffer(g, r) == IF IsEmpty(g) THEN g ELSE <<g[1] - r, g[2] + r>>

Area(g) == IF IsEmpty(g) THEN 0 ELSE g[2] - g[1]

Centroid(g) == (g[1] + g[2]) \div 2

\* Point(longitude, latitude)
Point(x, y) == [x |-> x, y |-> y]

\* polygon.contains(point): the point lies in the interior
Contains(g, p) == ~IsEmpty(g) /\ g[1] < p.x /\ p.x < g[2]

\* geometry.is_valid: a ring given backwards (hi before lo) stands for a polygon
\* whose ring crosses itself; the operators above take it as given, without repair
IsValid(g) == IsEmpty(g) \/ g[1] <= g[2]

\* geometry.__geo_interface__ and shapely.geometry.shape
GeoInterface(g) == [type |-> "Polygon", coordinates |-> g]
Shape(gi) == gi.coordinates

-----------------------------------------------------------------------------
(* Reference data the model draws from *)

ParcelPool ==
    { [PIN |-> "1001", geometry |-> <<0, 2500>>],
      [PIN |-> "1002", geometry |-> <<2400, 2600>>],
      [PIN |-> "1003", geometry |-> <<3000, 3100>>],
      [PIN |-> "1004", geometry |-> <<0, 2500>>] }

\* parcels as a caller can hand them to the stage functions: one of area 0 and one
\* whose ring crosses itself
DegenerateParcels ==
    { [PIN |-> "1005", geometry |-> <<2500, 2500>>],
      [PIN |-> "1006", geometry |-> <<2500, 0>>] }

\* sequences over a pool, of length at most n
RECURSIVE SeqsOver(_, _)
SeqsOver(pool, n) ==
    IF n = 0 THEN {<<>>}
    ELSE LET shorter == SeqsOver(pool, n - 1)
         IN shorter \cup {Append(s, x) : s \in shorter, x \in pool}

Range(s) == {s[i] : i \in 1..Len(s)}
Injective(s) == Cardinality(Range(s)) = Len(s)

ParcelDatasets == {s \in SeqsOver(ParcelPool, MaxParcels) : Injective(s)}

Longitudes == {10, 2450, 2500, 2700, 3050}
Locations == {[latitude |-> 47, longitude |-> x] : x \in Longitudes}

\* file states with at most MaxFaults faulty files
ColumnFiles == {PROPERTY_FILE, CONTOUR_FILE}
FileStates ==
    {st \in [Files -> {"ok", "unreadable", "no_column"}] :
        /\ \A f \in Files : st[f] = "no_column" => f \in ColumnFiles
        /\ Cardinality({f \in Files : st[f] # "ok"}) <= MaxFaults}

-----------------------------------------------------------------------------
(* geo_processing.load_geojson *)

Rows(file) ==
    IF file = PROPERTY_FILE THEN parcels
    ELSE IF file = CONTOUR_FILE THEN contours
    ELSE hazards[file]

Columns(file) ==
    IF file = PROPERTY_FILE
    THEN (IF fileStatus[file] = "no_column" THEN {} ELSE {"PIN"}) \cup {"geometry"}
    ELSE IF file = CONTOUR_FILE
    THEN (IF fileStatus[file] = "no_column" THEN {} ELSE {"Elevation"}) \cup {"geometry"}
    ELSE {"geometry"}

\* gpd.read_file raises on an unreadable file; load_geojson logs and re-raises
load_geojson(file) ==
    IF fileStatus[file] = "unreadable"
    THEN [raised |-> TRUE, columns |-> {}, rows |-> <<>>]
    ELSE [raised |-> FALSE, columns |-> Columns(file), rows |-> Rows(file)]

-----------------------------------------------------------------------------
(* geo_processing.extract_property *)

Property(pin, geom) == [parcel_id |-> pin, geometry |-> GeoInterface(geom)]

\* a slip: the scan does not stop at the first containing row
RECURSIVE LastContaining(_, _, _)
LastContaining(rows, point, i) ==
    IF i > Len(rows) THEN 0
    ELSE LET later == LastContaining(rows, point, i + 1)
         IN  IF later # 0 THEN later
             ELSE IF Contains(rows[i].geometry, point) THEN i
             ELSE 0

\* index of the first row from i on whose geometry contains the point, 0 if none
RECURSIVE FirstContaining(_, _, _)
FirstContaining(rows, point, i) ==
    IF i > Len(rows) THEN 0
    ELSE IF Contains(rows[i].geometry, point) THEN i
    ELSE FirstContaining(rows, point, i + 1)

extract_property(coordinates) ==
    LET gdf == load_geojson(PROPERTY_FILE)
        point == Point(coordinates.longitude, coordinates.latitude)
        idx == FirstContaining(gdf.rows, point, 1)
    IN  IF gdf.raised
        THEN [value |-> None, log |-> <<"error: loading GeoJSON", "error: extracting property">>]
        ELSE IF "PIN" \notin gdf.columns
        THEN [value |-> None, log |-> <<"error: PIN missing", "error: extracting property">>]
        ELSE IF idx # 0
        THEN [value |-> Some(Property(gdf.rows[idx].PIN, gdf.rows[idx].geometry)),
              log |-> <<>>]
        ELSE [value |-> None, log |-> <<"warning: no property found">>]

-----------------------------------------------------------------------------
(* Contour and erosion data the model draws from *)

ContourPool ==
    { [Elevation |-> 100, geometry |-> <<10, 10>>],
      [Elevation |-> 110, geometry |-> <<11, 11>>],
      [Elevation |-> 101, geometry |-> <<50, 50>>],
      [Elevation |-> 110, geometry |-> <<11, 12>>],
      [Elevation |-> 120, geometry |-> <<2504, 2504>>],
      [Elevation |-> 100, geometry |-> <<2450, 2550>>],
      [Elevation |-> 111, geometry |-> <<2011, 2011>>] }

ContourDatasets == {s \in SeqsOver(ContourPool, MaxContours) : Injective(s)}

NearLake == <<[geometry |-> <<2600, 2700>>]>>
FarFromLake == <<[geometry |-> <<3000, 3100>>]>>
ErosionOptions == {<<>>, NearLake, FarFromLake}

-----------------------------------------------------------------------------
(* geo_processing.calculate_slope *)

\* round(1000 * tan(k degrees)), k = 1..89
TanMilli ==
    <<17, 35, 52, 70, 87, 105, 123, 141, 158, 176, 194, 213, 231, 249, 268,
      287, 306, 325, 344, 364, 384, 404, 424, 445, 466, 488, 510, 532, 554,
      577, 601, 625, 649, 675, 700, 727, 754, 781, 810, 839, 869, 900, 933,
      966, 1000, 1036, 1072, 1111, 1150, 1192, 1235, 1280, 1327, 1376, 1428,
      1483, 1540, 1600, 1664, 1732, 1804, 1881, 1963, 2050, 2145, 2246, 2356,
      2475, 2605, 2747, 2904, 3078, 3271, 3487, 3732, 4011, 4331, 4705, 5145,
      5671, 6314, 7115, 8144, 9514, 11430, 14301, 19081, 28636, 57290>>

\* np.degrees(np.arctan(num / den)) in whole degrees, den > 0
ArcTanDeg(num, den) ==
    Cardinality({k \in 1..Len(TanMilli) : TanMilli[k] * den <= 1000 * num})

\* slope of a pair in arc-minutes: the elevation difference over the centroid
\* distance in metres (dist counts quarter-metres)
SlopeDeg(elev_diff, dist) == 60 * ArcTanDeg(4 * elev_diff, dist)

RECURSIVE Sum(_)
Sum(s) == IF s = <<>> THEN 0 ELSE s[1] + Sum(Tail(s))

\* a slip: the last sample taken for the maximum
LastOf(s) == s[Len(s)]

RECURSIVE MaxOf(_)
MaxOf(s) == IF Len(s) = 1 THEN s[1] ELSE Max(s[1], MaxOf(Tail(s)))

\* np.mean
Mean(s) == Sum(s) \div Len(s)

SlopeData(avg, mx, dist) ==
    [average_slope |-> avg, max_slope |-> mx, average_distance |-> dist]

\* SlopeData(average_slope=0.0, max_slope=0.0); average_distance takes the default
\* of the SlopeData class, a number (perform_analysis multiplies it), here 0
FlatSlopeData == SlopeData(0, 0, 0)

\* GeoDataFrame.to_crs on the rows of a dataset
RowsToCrs(rows) ==
    [i \in 1..Len(rows) |-> [rows[i] EXCEPT !.geometry = ToCrs(rows[i].geometry)]]

\* contours_gdf[contours_gdf.intersects(geom)]
SelectIntersecting(rows, geom) ==
    SelectSeq(rows, LAMBDA r : Intersects(r.geometry, geom))

\* intersections.geometry.intersection(geom)
ClipTo(rows, geom) ==
    [i \in 1..Len(rows) |->
        [rows[i] EXCEPT !.geometry = Intersection(rows[i].geometry, geom)]]

\* intersections[~intersections.geometry.is_empty]
DropEmpty(rows) == SelectSeq(rows, LAMBDA r : ~IsEmpty(r.geometry))

\* sort_values(by="Elevation") sorts ascending with the default kind, quicksort,
\* which does not promise an order among rows of equal elevation: the order is
\* fixed by the build (rows keep their order, or come out reversed), the same
\* in every call
SortKinds == {"keeps order", "reverses order"}

\* whether row r is placed after row s when the sort meets them in this order
PlacedAfter(s, r) ==
    IF sortKind = "keeps order" THEN s.Elevation <= r.Elevation
    ELSE s.Elevation < r.Elevation

RECURSIVE InsertByElevation(_, _)
InsertByElevation(sorted, r) ==
    IF sorted = <<>> THEN <<r>>
    ELSE IF PlacedAfter(sorted[Len(sorted)], r) THEN Append(sorted, r)
    ELSE Append(InsertByElevation(SubSeq(sorted, 1, Len(sorted) - 1), r),
                sorted[Len(sorted)])

RECURSIVE SortByElevation(_)
SortByElevation(rows) ==
    IF rows = <<>> THEN <<>>
    ELSE InsertByElevation(SortByElevation(SubSeq(rows, 1, Len(rows) - 1)),
                           rows[Len(rows)])

\* a slip: the lower end of the distance filter taken inclusive
AcceptedDistInclusive(dist) == MIN_DIST <= dist /\ dist <= MAX_DIST

\* the distance filter of the pair loop
AcceptedDist(dist) == MIN_DIST < dist /\ dist <= MAX_DIST

PairDist(rows, i) ==
    Abs(Centroid(rows[i].geometry) - Centroid(rows[i + 1].geometry))

PairElevDiff(rows, i) == Abs(rows[i + 1].Elevation - rows[i].Elevation)

\* the pair loop: the accepted pairs from pair i on, as <<slope, distance>>
RECURSIVE PairSamples(_, _)
PairSamples(rows, i) ==
    IF i > Len(rows) - 1 THEN <<>>
    ELSE LET dist == PairDist(rows, i)
             rest == PairSamples(rows, i + 1)
         IN  IF AcceptedDist(dist)
             THEN <<<<SlopeDeg(PairElevDiff(rows, i), dist), dist>>>> \o rest
             ELSE rest

\* the contours selected for the parcel: those that intersect it or, when fewer
\* than two do, those that intersect the parcel buffered by 10 m
SelectedContours(rows, geom) ==
    LET direct == SelectIntersecting(rows, geom)
    IN  IF Len(direct) < 2
        THEN SelectIntersecting(rows, Buffer(geom, BUFFER_RETRY))
        ELSE direct

\* a slip: the selection is retried with a wider buffer while it finds too few
RetryLoopLog(rows, geom) ==
    (IF Len(SelectIntersecting(rows, geom)) < 2
     THEN <<"warning: applying 10m buffer">> ELSE <<>>)
    \o (IF Len(SelectIntersecting(rows, Buffer(geom, BUFFER_RETRY))) < 2
        THEN <<"warning: applying 10m buffer">> ELSE <<>>)

\* the warning logged for each retry of the selection: the selection is
\* retried once, when fewer than two contours intersect the parcel
RetryLog(rows, geom) ==
    IF Len(SelectIntersecting(rows, geom)) < 2
    THEN <<"warning: applying 10m buffer">>
    ELSE <<>>

\* the selection is clipped to the parcel itself
ClipGeometry(geom) == geom

ClippedSegments(rows, geom) ==
    DropEmpty(ClipTo(SelectedContours(rows, geom), ClipGeometry(geom)))

\* erosion_gdf.intersects(property_geom_proj.buffer(100)).any()
LakeProximity(erosionRows, geom) ==
    \E i \in 1..Len(erosionRows) :
        Intersects(erosionRows[i].geometry, Buffer(geom, LAKE_BUFFER))

\* a slip: a zero average is not taken for a flat average
CorrectedMaxNonZero(lake_proximity, avg_slope, max_slope) ==
    IF lake_proximity /\ 0 < avg_slope /\ avg_slope < FLAT_AVG /\ max_slope < LAKE_MAX
    THEN LAKE_MAX
    ELSE max_slope

\* the lakefront correction of max_slope
CorrectedMax(lake_proximity, avg_slope, max_slope) ==
    IF lake_proximity /\ avg_slope < FLAT_AVG /\ max_slope < LAKE_MAX
    THEN LAKE_MAX
    ELSE max_slope

\* a slip: the except clause returns None
SlopeExceptNone(events) ==
    [value |-> None, path |-> "exception", lake |-> None,
     log |-> events \o <<"error: calculating slope">>]

\* the except clause: every exception becomes a flat SlopeData
SlopeExcept(events) ==
    [value |-> Some(FlatSlopeData), path |-> "exception", lake |-> None,
     log |-> events \o <<"error: calculating slope">>]

\* a slip: too few segments treated as a failure
InsufficientAsNone ==
    [value |-> None, path |-> "insufficient", lake |-> None,
     log |-> <<"warning: insufficient contour intersections">>]

\* lines 81-83: fewer than two segments, a flat SlopeData is returned
InsufficientResult ==
    [value |-> Some(FlatSlopeData), path |-> "insufficient", lake |-> None,
     log |-> <<"warning: insufficient contour intersections">>]

\* a slip: the erosion layer is loaded before the test for accepted pairs
NoSlopesAfterErosion ==
    IF load_geojson(HAZARD_FILES["erosion"]).raised
    THEN SlopeExcept(<<"error: loading GeoJSON">>)
    ELSE [value |-> Some(FlatSlopeData), path |-> "no_slopes", lake |-> None,
          log |-> <<"warning: no valid slopes">>]

\* lines 107-109: no pair was accepted, a flat SlopeData is returned
NoSlopesResult ==
    [value |-> Some(FlatSlopeData), path |-> "no_slopes", lake |-> None,
     log |-> <<"warning: no valid slopes">>]

\* value and log are what the function returns and logs; path names the return
\* statement taken and lake holds the lake_proximity of line 121 when it was computed
calculate_slope(property) ==
    LET gdf == load_geojson(CONTOUR_FILE)
        geom == ToCrs(Shape(property.geometry))
        segments == ClippedSegments(RowsToCrs(gdf.rows), geom)
        sorted == SortByElevation(segments)
        samples == PairSamples(sorted, 1)
        slopes == [i \in 1..Len(samples) |-> samples[i][1]]
        distances == [i \in 1..Len(samples) |-> samples[i][2]]
        avg_slope == Mean(slopes)
        max_slope == MaxOf(slopes)
        avg_distance == Mean(distances)
        extreme == IF avg_slope > EXTREME_AVG THEN <<"warning: extreme slope">> ELSE <<>>
        erosion == load_geojson(HAZARD_FILES["erosion"])
        lake_proximity == LakeProximity(RowsToCrs(erosion.rows), geom)
        nearFlat == lake_proximity /\ avg_slope < FLAT_AVG
        corrected == CorrectedMax(lake_proximity, avg_slope, max_slope)
        retry == RetryLog(RowsToCrs(gdf.rows), geom)
        loaded ==
            IF "Elevation" \notin gdf.columns
            THEN SlopeExcept(<<>>)    \* sort_values raises KeyError
            ELSE IF Len(sorted) < 2
            THEN InsufficientResult
            ELSE IF samples = <<>>
            THEN NoSlopesResult
            ELSE IF erosion.raised
            THEN SlopeExcept(extreme \o <<"error: loading GeoJSON">>)
            ELSE [value |-> Some(SlopeData(avg_slope, corrected, avg_distance)),
                  path |-> "computed", lake |-> Some(lake_proximity),
                  log |-> extreme
                          \o (IF nearFlat THEN <<"warning: near lake but flat">> ELSE <<>>)
                          \o (IF nearFlat /\ corrected # max_slope
                              THEN <<"info: adjusting max_slope">> ELSE <<>>)]
    IN  IF gdf.raised
        THEN SlopeExcept(<<"error: loading GeoJSON">>)
        ELSE [loaded EXCEPT !.log = retry \o @]

-----------------------------------------------------------------------------
(* Hazard data the model draws from *)

LayerOptions ==
    { <<>>,
      <<[geometry |-> <<0, 125>>]>>,                                 \* 5% of parcel 1001
      <<[geometry |-> <<0, 250>>]>>,                                 \* exactly 10%
      <<[geometry |-> <<0, 251>>]>>,                                 \* just above 10%
      <<[geometry |-> <<0, 150>>], [geometry |-> <<150, 300>>]>>,    \* 6% + 6%
      <<[geometry |-> <<-100, 2700>>]>> }                            \* 100%

HazardConfigs ==
    {h \in [HazardKinds -> LayerOptions] :
        Cardinality({k \in HazardKinds : h[k] # <<>>}) <= MaxHazardous}

-----------------------------------------------------------------------------
(* geo_processing.check_environmental_hazards *)

\* hazard_gdf.intersection(property_geom_proj).area.sum()
RECURSIVE IntersectionArea(_, _)
IntersectionArea(rows, geom) ==
    IF rows = <<>> THEN 0
    ELSE Area(Intersection(rows[1].geometry, geom)) + IntersectionArea(Tail(rows), geom)

\* a slip: the threshold taken inclusive
SignificantInclusive(intersection_area, property_area) ==
    IF property_area > 0
    THEN OVERLAP_DEN * intersection_area >= property_area
    ELSE FALSE

\* overlap_ratio > 0.1, the ratio taken as 0 for a parcel of area 0
Significant(intersection_area, property_area) ==
    IF property_area > 0
    THEN OVERLAP_DEN * intersection_area > property_area
    ELSE FALSE

\* a slip: a layer that fails to load is skipped and its flag left false
RECURSIVE HazardLoopSkipFailed(_, _, _)
HazardLoopSkipFailed(geom, i, flags) ==
    IF i > Len(HazardOrder) THEN [raised |-> FALSE, hazards |-> flags]
    ELSE LET kind == HazardOrder[i]
             gdf == load_geojson(HAZARD_FILES[kind])
             area == IntersectionArea(RowsToCrs(gdf.rows), geom)
         IN  HazardLoopSkipFailed(geom, i + 1,
                 flags @@ (kind :> (~gdf.raised /\ 10 * area > Area(geom))))

\* a slip: the ratio is divided out without the guard, which fails for an area of 0
RECURSIVE HazardLoopUnguarded(_, _, _)
HazardLoopUnguarded(geom, i, flags) ==
    IF i > Len(HazardOrder) THEN [raised |-> FALSE, hazards |-> flags]
    ELSE LET kind == HazardOrder[i]
             gdf == load_geojson(HAZARD_FILES[kind])
             area == IntersectionArea(RowsToCrs(gdf.rows), geom)
         IN  IF gdf.raised \/ Area(geom) = 0
             THEN [raised |-> TRUE, hazards |-> flags]
             ELSE HazardLoopUnguarded(geom, i + 1,
                     flags @@ (kind :> (OVERLAP_DEN * area > Area(geom))))

\* a slip: the flag of the layer before is carried into the next iteration
RECURSIVE HazardLoopCarried(_, _, _)
HazardLoopCarried(geom, i, flags) ==
    IF i > Len(HazardOrder) THEN [raised |-> FALSE, hazards |-> flags]
    ELSE LET kind == HazardOrder[i]
             gdf == load_geojson(HAZARD_FILES[kind])
             area == IntersectionArea(RowsToCrs(gdf.rows), geom)
             carried == i > 1 /\ flags[HazardOrder[i - 1]]
         IN  IF gdf.raised
             THEN [raised |-> TRUE, hazards |-> flags]
             ELSE HazardLoopCarried(geom, i + 1,
                     flags @@ (kind :> (carried \/ Significant(area, Area(geom)))))

\* the loop over HAZARD_FILES from layer i on; flags holds the layers done so far
RECURSIVE HazardLoop(_, _, _)
HazardLoop(geom, i, flags) ==
    IF i > Len(HazardOrder) THEN [raised |-> FALSE, hazards |-> flags]
    ELSE LET kind == HazardOrder[i]
             gdf == load_geojson(HAZARD_FILES[kind])
             area == IntersectionArea(RowsToCrs(gdf.rows), geom)
         IN  IF gdf.raised
             THEN [raised |-> TRUE, hazards |-> flags]
             ELSE HazardLoop(geom, i + 1,
                             flags @@ (kind :> Significant(area, Area(geom))))

EnvironmentalCheck(h) ==
    [erosion |-> h["erosion"], potential_slide |-> h["potential_slide"],
     seismic |-> h["seismic"], steep_slope |-> h["steep_slope"],
     watercourse |-> h["watercourse"]]

check_environmental_hazards(property) ==
    LET geom == ToCrs(Shape(property.geometry))
        loop == HazardLoop(geom, 1, <<>>)
    IN  IF loop.raised
        THEN [value |-> None,
              log |-> <<"error: loading GeoJSON", "error: checking environmental hazards">>]
        ELSE [value |-> Some(EnvironmentalCheck(loop.hazards)), log |-> <<>>]

-----------------------------------------------------------------------------
(* app.py: the inputs of a run and the external collaborators *)

Streets == {"", "10 Shore Ln", "2450 Ridge Rd", "2700 Lake Dr"}
Zips == {"", "98040"}

\* what the geocoding service knows of each street
Gazetteer ==
    [s \in Streets \ {""} |->
        [latitude |-> 47,
         longitude |-> CASE s = "10 Shore Ln" -> 10
                         [] s = "2450 Ridge Rd" -> 2450
                         [] OTHER -> 2700]]

\* geolocator.geocode: a location, no match (None) or a service error
GeocoderResponses(street) == {<<"location", Gazetteer[street]>>, <<"none">>, <<"timeout">>}

\* geo_processing.geocode_address
geocode_address(response) ==
    IF response[1] = "location"
    THEN [value |-> Some([latitude |-> response[2].latitude,
                          longitude |-> response[2].longitude]),
          log |-> <<>>]
    ELSE IF response[1] = "timeout"
    THEN [value |-> None, log |-> <<"error: geocoding error">>]
    ELSE [value |-> None, log |-> <<"error: unexpected error during geocoding">>]

AddressStr(street, zip) ==
    <<street, "Mercer Island, WA">> \o (IF zip # "" THEN <<zip>> ELSE <<>>)

SessionKeys ==
    {"coordinates", "address", "property", "slope_data", "environmental_check",
     "location_analysis", "slope_analysis", "feasibility_report", "chat_history"}

\* main: every key starts as None, chat_history as the empty list
InitSession == [k \in SessionKeys |-> None]

LocalKeys ==
    {"address_str", "coordinates", "property_data", "slope_data", "environmental_check",
     "lake_proximity", "location_analysis", "slope_analysis"}

NoLocals == [k \in LocalKeys |-> None]

Get(opt) == opt[1]

ref == <<fileStatus, parcels, contours, hazards, sortKind>>

-----------------------------------------------------------------------------
(* app.perform_analysis, one action per stage *)

\* main: the Analyze button with a non-empty street; geocoding
Analyze(street, zip) ==
    /\ pc = "idle"
    /\ street # ""
    /\ \E response \in GeocoderResponses(street) :
       LET r == geocode_address(response)
       IN  /\ calls' = <<"geocode_address">>
           /\ log' = r.log
           /\ IF r.value = None
              THEN /\ messages' = <<"error: Failed to geocode address.">>
                   /\ pc' = "idle"
                   /\ local' = NoLocals
                   /\ UNCHANGED <<session, fresh>>
              ELSE /\ messages' = <<"success: Geocoded Address">>
                   /\ pc' = "extract_property"
                   /\ local' = [NoLocals EXCEPT !["address_str"] = Some(AddressStr(street, zip)),
                                                !["coordinates"] = r.value]
                   /\ session' = [session EXCEPT !["coordinates"] = r.value,
                                                 !["address"] = Some(AddressStr(street, zip))]
                   /\ fresh' = {"coordinates", "address"}
    /\ exchange' = None
    /\ UNCHANGED ref

ExtractPropertyStage ==
    /\ pc = "extract_property"
    /\ LET r == extract_property(Get(local["coordinates"]))
       IN  /\ calls' = Append(calls, "extract_property")
           /\ log' = log \o r.log
           /\ IF r.value = None
              THEN /\ messages' = Append(messages, "error: No property found at the given coordinates.")
                   /\ pc' = "idle"
                   /\ local' = NoLocals
                   /\ UNCHANGED <<session, fresh>>
              ELSE /\ pc' = "calculate_slope"
                   /\ local' = [local EXCEPT !["property_data"] = r.value]
                   /\ session' = [session EXCEPT !["property"] = r.value]
                   /\ fresh' = fresh \cup {"property"}
                   /\ UNCHANGED messages
    /\ UNCHANGED <<ref, exchange>>

\* a slip: the parcel of the caller is widened in place for the buffer retry
CalculateSlopeStageInPlace ==
    /\ pc = "calculate_slope"
    /\ LET p == Get(local["property_data"])
           r == calculate_slope(p)
           widened == [p EXCEPT !.geometry = GeoInterface(Buffer(Shape(p.geometry), 20))]
       IN  /\ calls' = Append(calls, "calculate_slope")
           /\ log' = log \o r.log
           /\ pc' = "check_environmental_hazards"
           /\ local' = [local EXCEPT !["slope_data"] = r.value,
                                     !["property_data"] = Some(widened)]
           /\ session' = [session EXCEPT !["slope_data"] = r.value]
           /\ fresh' = fresh \cup {"slope_data"}
           /\ UNCHANGED messages
    /\ UNCHANGED <<ref, exchange>>

\* a slip: the sort orders rows of equal elevation anew in every call
CalculateSlopeStageReordering ==
    /\ pc = "calculate_slope"
    /\ LET r == calculate_slope(Get(local["property_data"]))
       IN  /\ calls' = Append(calls, "calculate_slope")
           /\ log' = log \o r.log
           /\ pc' = "check_environmental_hazards"
           /\ local' = [local EXCEPT !["slope_data"] = r.value]
           /\ session' = [session EXCEPT !["slope_data"] = r.value]
           /\ fresh' = fresh \cup {"slope_data"}
           /\ UNCHANGED messages
    /\ sortKind' \in SortKinds
    /\ UNCHANGED <<fileStatus, parcels, contours, hazards, exchange>>

\* a slip: the hazard check is run before the slope calculation
CalculateSlopeStageAfterHazards ==
    /\ pc = "calculate_slope"
    /\ LET h == check_environmental_hazards(Get(local["property_data"]))
           r == calculate_slope(Get(local["property_data"]))
       IN  /\ calls' = calls \o <<"check_environmental_hazards", "calculate_slope">>
           /\ log' = log \o h.log \o r.log
           /\ IF h.value = None
              THEN /\ messages' = Append(messages, "error: Failed to check environmental hazards.")
                   /\ pc' = "idle"
                   /\ local' = NoLocals
                   /\ UNCHANGED <<session, fresh>>
              ELSE /\ pc' = "lake_proximity"
                   /\ local' = [local EXCEPT !["slope_data"] = r.value,
                                             !["environmental_check"] = h.value]
                   /\ session' = [session EXCEPT !["slope_data"] = r.value,
                                                 !["environmental_check"] = h.value]
                   /\ fresh' = fresh \cup {"slope_data", "environmental_check"}
                   /\ UNCHANGED messages
    /\ UNCHANGED <<ref, exchange>>

CalculateSlopeStage ==
    /\ pc = "calculate_slope"
    /\ LET r == calculate_slope(Get(local["property_data"]))
       IN  /\ calls' = Append(calls, "calculate_slope")
           /\ log' = log \o r.log
           /\ IF r.value = None
              THEN /\ messages' = Append(messages, "error: Failed to calculate slope data.")
                   /\ pc' = "idle"
                   /\ local' = NoLocals
                   /\ UNCHANGED <<session, fresh>>
              ELSE /\ pc' = "check_environmental_hazards"
                   /\ local' = [local EXCEPT !["slope_data"] = r.value]
                   /\ session' = [session EXCEPT !["slope_data"] = r.value]
                   /\ fresh' = fresh \cup {"slope_data"}
                   /\ UNCHANGED messages
    /\ UNCHANGED <<ref, exchange>>

\* a slip: the return after the error message is missing
CheckHazardsStageNoReturn ==
    /\ pc = "check_environmental_hazards"
    /\ LET r == check_environmental_hazards(Get(local["property_data"]))
       IN  /\ calls' = Append(calls, "check_environmental_hazards")
           /\ log' = log \o r.log
           /\ messages' = IF r.value = None
                          THEN Append(messages, "error: Failed to check environmental hazards.")
                          ELSE messages
           /\ pc' = "lake_proximity"
           /\ local' = [local EXCEPT !["environmental_check"] = r.value]
           /\ session' = [session EXCEPT !["environmental_check"] = r.value]
           /\ fresh' = fresh \cup {"environmental_check"}
    /\ UNCHANGED <<ref, exchange>>

CheckHazardsStage ==
    /\ pc = "check_environmental_hazards"
    /\ LET r == check_environmental_hazards(Get(local["property_data"]))
       IN  /\ calls' = Append(calls, "check_environmental_hazards")
           /\ log' = log \o r.log
           /\ IF r.value = None
              THEN /\ messages' = Append(messages, "error: Failed to check environmental hazards.")
                   /\ pc' = "idle"
                   /\ local' = NoLocals
                   /\ UNCHANGED <<session, fresh>>
              ELSE /\ pc' = "lake_proximity"
                   /\ local' = [local EXCEPT !["environmental_check"] = r.value]
                   /\ session' = [session EXCEPT !["environmental_check"] = r.value]
                   /\ fresh' = fresh \cup {"environmental_check"}
                   /\ UNCHANGED messages
    /\ UNCHANGED <<ref, exchange>>

\* a slip: the parcel is not buffered by 100 m
LakeProximityStageUnbuffered ==
    /\ pc = "lake_proximity"
    /\ LET erosion == load_geojson(HAZARD_FILES["erosion"])
           geom == ToCrs(Shape(Get(local["property_data"]).geometry))
       IN  /\ pc' = "analyze_location"
           /\ local' = [local EXCEPT !["lake_proximity"] =
                           Some(LakeProximity(RowsToCrs(erosion.rows), Buffer(geom, -LAKE_BUFFER)))]
           /\ UNCHANGED messages
    /\ UNCHANGED <<ref, session, fresh, calls, log, exchange>>

\* lines 69-73: gpd.read_file is called outside any try block
LakeProximityStage ==
    /\ pc = "lake_proximity"
    /\ LET erosion == load_geojson(HAZARD_FILES["erosion"])
           geom == ToCrs(Shape(Get(local["property_data"]).geometry))
       IN  IF erosion.raised
           THEN /\ messages' = Append(messages, "exception: unhandled")
                /\ pc' = "idle"
                /\ local' = NoLocals
           ELSE /\ pc' = "analyze_location"
                /\ local' = [local EXCEPT !["lake_proximity"] =
                                Some(LakeProximity(RowsToCrs(erosion.rows), geom))]
                /\ UNCHANGED messages
    /\ UNCHANGED <<ref, session, fresh, calls, log, exchange>>

-----------------------------------------------------------------------------
(* gemini_analysis: texts and parse_gemini_json_response *)

\* A recommendation is a sequence of tokens, its priority tag first when it has one.
\* str.startswith and str.replace (which replaces every occurrence)
StartsWith(rec, tok) == rec # <<>> /\ rec[1] = tok
Replace(rec, old, new) ==
    [i \in 1..Len(rec) |-> IF rec[i] = old THEN new ELSE rec[i]]

\* a slip: the elif branch for '[Medium]' is missing
NormalizeRecHighOnly(rec) ==
    IF StartsWith(rec, "[High]") THEN Replace(rec, "[High]", "[Critical]") ELSE rec

\* lines 74-77: the body of the loops over a list of recommendations
NormalizeRec(rec) ==
    IF StartsWith(rec, "[High]") THEN Replace(rec, "[High]", "[Critical]")
    ELSE IF StartsWith(rec, "[Medium]") THEN Replace(rec, "[Medium]", "[Major]")
    ELSE rec

NormalizeList(recs) == [i \in 1..Len(recs) |-> NormalizeRec(recs[i])]

\* lines 72-77: the top-level lists, where present
NormalizeSections(d) ==
    [k \in DOMAIN d |->
        IF k \in {"recommendations", "detailed_recommendations"}
        THEN NormalizeList(d[k])
        ELSE d[k]]

\* lines 78-89: the recommendations of a nested analysis, where present
NormalizeNested(d, key) ==
    IF key \in DOMAIN d /\ "recommendations" \in DOMAIN d[key]
    THEN [d EXCEPT ![key] = [@ EXCEPT !["recommendations"] = NormalizeList(@)]]
    ELSE d

NormalizeData(d) ==
    NormalizeNested(NormalizeNested(NormalizeSections(d), "location_analysis"),
                    "slope_analysis")

\* An answer text: whitespace before (lead) and after (trail), the opening and the
\* closing fence, and what stands between them: a JSON document or something else.
\* str.strip, str.startswith, str.endswith
Strip(text) == [text EXCEPT !.lead = FALSE, !.trail = FALSE]
TextStartsWith(text, tok) == ~text.lead /\ text.open = tok
TextEndsWith(text, tok) == ~text.trail /\ text.close = tok

\* the message of each exception, as the callers log it
ErrorLogged ==
    [e \in {"ValueError", "JSONDecodeError", "generate_content"} |->
        CASE e = "ValueError"      -> "error: Response is not in expected JSON format"
          [] e = "JSONDecodeError" -> "error: JSONDecodeError"
          [] e = "generate_content" -> "error: generate_content failed"]

\* raised is empty when the function returns; JSONDecodeError is a ValueError;
\* <fence> stands for the three backticks
parse_gemini_json_response(response_text) ==
    LET text == Strip(response_text)
    IN  IF TextStartsWith(text, "<fence>json") /\ TextEndsWith(text, "<fence>")
        THEN IF text.body.json
             THEN [raised |-> "", data |-> NormalizeData(text.body.data)]
             ELSE [raised |-> "JSONDecodeError", data |-> <<>>]
        ELSE [raised |-> "ValueError", data |-> <<>>]

-----------------------------------------------------------------------------
(* The Gemini model: what generate_content may answer to a prompt *)

Formats ==
    {"fenced", "fenced in whitespace", "no fence", "plain fence", "unclosed fence",
     "fenced, not JSON", "error"}

\* formats that parse
Fenced == {"fenced", "fenced in whitespace"}

RecLists ==
    { <<>>,
      << <<"[High]", "text">>, <<"[Minor]", "text">> >>,
      << <<"[Medium]", "[High]">>, <<"[High]", "[High]">> >>,
      << <<"[Critical]", "text">>, <<"text", "[High]">>, <<"[Major]", "[Medium]">> >> }

SteepItem == "Steep slope indicated by calculated angle"

VerificationLists ==
    { <<>>, <<"Soil bearing capacity">>, <<"Soil bearing capacity", SteepItem>> }

LayerChoices == {"copied", "steep slope marked present", "first entry dropped"}

\* the choices of the model when it answers an analysis prompt
AnalysisChoices ==
    {[format |-> f, recs |-> r] : f \in Fenced, r \in RecLists}
        \cup {[format |-> f, recs |-> <<>>] : f \in Formats \ Fenced}

\* the choices of the model when it answers the report prompt
ReportChoices ==
    {[format |-> f, recs |-> r, layers |-> l, verification |-> v] :
        f \in Fenced, r \in RecLists, l \in LayerChoices, v \in VerificationLists}
        \cup {[format |-> f, recs |-> <<>>, layers |-> "copied", verification |-> <<>>] :
                f \in Formats \ Fenced}

\* the choices drawn in the runs of the whole pipeline
PipelineAnalysisChoices ==
    { [format |-> "fenced", recs |-> << <<"[High]", "text">>, <<"[Minor]", "text">> >>],
      [format |-> "error", recs |-> <<>>] }

PipelineReportChoices ==
    { [format |-> "fenced", recs |-> << <<"[High]", "text">>, <<"[Minor]", "text">> >>,
       layers |-> "copied", verification |-> <<"Soil bearing capacity">>],
      [format |-> "no fence", recs |-> <<>>, layers |-> "copied", verification |-> <<>>] }

\* the text in a format around a JSON document
Text(format, data) ==
    [lead  |-> format = "fenced in whitespace",
     open  |-> IF format = "no fence" THEN ""
               ELSE IF format = "plain fence" THEN "<fence>" ELSE "<fence>json",
     body  |-> IF format = "fenced, not JSON"
               THEN [json |-> FALSE, data |-> <<>>]
               ELSE [json |-> TRUE, data |-> data],
     close |-> IF format \in {"no fence", "unclosed fence"} THEN "" ELSE "<fence>",
     trail |-> format = "fenced in whitespace"]

Analysis(recs) ==
    [summary |-> "summary", recommendations |-> recs,
     verification_needed |-> <<"Soil type">>]

\* the hazard_layers of an answer: the list of the prompt or a list of its own
AnsweredLayers(choice, given) ==
    IF choice = "steep slope marked present"
    THEN [i \in 1..Len(given) |->
            IF given[i][1] = "Steep Slope Hazard"
            THEN <<given[i][1], "Present", "falls within">>
            ELSE given[i]]
    ELSE IF choice = "first entry dropped" THEN Tail(given)
    ELSE given

\* model.generate_content(prompt): None when the call raises
GenerateContent(prompt, choice) ==
    IF choice.format = "error" THEN None
    ELSE IF prompt.task = "report"
    THEN Some(Text(choice.format,
                   [location_analysis |-> Analysis(choice.recs),
                    slope_analysis |-> Analysis(choice.recs),
                    overall_feasibility |-> "Marginally Feasible (30-50%)",
                    detailed_recommendations |-> choice.recs,
                    hazard_layers |-> AnsweredLayers(choice.layers, prompt.hazard_layers),
                    verification_needed |-> choice.verification]))
    ELSE Some(Text(choice.format, Analysis(choice.recs)))

-----------------------------------------------------------------------------
(* gemini_analysis.analyze_location, analyze_slope, generate_feasibility_report *)

\* LocationAnalysis(**response_data) and SlopeAnalysis(**response_data)
LocationAnalysis(data) ==
    [summary |-> data["summary"], recommendations |-> data["recommendations"],
     verification_needed |-> data["verification_needed"]]

SlopeAnalysis(data) ==
    [summary |-> data["summary"], recommendations |-> data["recommendations"],
     verification_needed |-> data["verification_needed"]]

\* FeasibilityReport(**response_data)
FeasibilityReport(data) ==
    [location_analysis |-> data["location_analysis"],
     slope_analysis |-> data["slope_analysis"],
     overall_feasibility |-> data["overall_feasibility"],
     detailed_recommendations |-> data["detailed_recommendations"],
     hazard_layers |-> data["hazard_layers"],
     verification_needed |-> data["verification_needed"]]

\* the try block of the three functions up to the parsed data
Answered(answer) ==
    IF answer = None
    THEN [raised |-> "generate_content", data |-> <<>>]
    ELSE parse_gemini_json_response(Get(answer))

analyze_location(answer) ==
    LET r == Answered(answer)
    IN  IF r.raised # ""
        THEN [value |-> None, log |-> <<ErrorLogged[r.raised]>>]
        ELSE [value |-> Some(LocationAnalysis(r.data)), log |-> <<>>]

analyze_slope(answer) ==
    LET r == Answered(answer)
    IN  IF r.raised # ""
        THEN [value |-> None, log |-> <<ErrorLogged[r.raised]>>]
        ELSE [value |-> Some(SlopeAnalysis(r.data)), log |-> <<>>]

hazard_descriptions ==
    [k \in HazardKinds |->
        CASE k = "erosion"         -> "Erosion Hazard"
          [] k = "potential_slide" -> "Potential Slide Hazard"
          [] k = "seismic"         -> "Seismic Hazard"
          [] k = "steep_slope"     -> "Steep Slope Hazard"
          [] k = "watercourse"     -> "Watercourse Buffer"]

\* lines 207-211: one entry per item of environmental_hazards
hazard_layer_list(environmental_hazards) ==
    [i \in 1..Len(HazardOrder) |->
        LET key == HazardOrder[i]
        IN  IF environmental_hazards[key]
            THEN <<hazard_descriptions[key], "Present", "falls within">>
            ELSE <<hazard_descriptions[key], "Not Present", "does not fall within">>]

\* a slip: an average of exactly 25 degrees counts as steep
verification_needed_extra_inclusive(environmental_hazards, slope_data) ==
    IF ~environmental_hazards["steep_slope"] /\ slope_data.average_slope >= STEEP_AVG
    THEN <<SteepItem>>
    ELSE <<>>

\* lines 213-217
verification_needed_extra(environmental_hazards, slope_data) ==
    IF ~environmental_hazards["steep_slope"] /\ slope_data.average_slope > STEEP_AVG
    THEN <<SteepItem>>
    ELSE <<>>

\* dict.get(key, default) and d[key] = value
GetOr(d, key, default) == IF key \in DOMAIN d THEN d[key] ELSE default
SetKey(d, key, value) ==
    [k \in DOMAIN d \cup {key} |-> IF k = key THEN value ELSE d[k]]

\* lines 258-269
generate_feasibility_report(environmental_hazards, slope_data, answer) ==
    LET r == Answered(answer)
        extra == verification_needed_extra(environmental_hazards, slope_data)
        response_data ==
            IF extra # <<>>
            THEN SetKey(r.data, "verification_needed",
                        GetOr(r.data, "verification_needed", <<>>) \o extra)
            ELSE r.data
    IN  IF r.raised # ""
        THEN [value |-> None, log |-> <<ErrorLogged[r.raised]>>]
        ELSE [value |-> Some(FeasibilityReport(response_data)), log |-> <<>>]

-----------------------------------------------------------------------------
(* app.perform_analysis, the three calls of the Gemini model *)

LocationPrompt ==
    [task |-> "location",
     address |-> Get(local["address_str"]),
     hazards |-> Get(local["environmental_check"]),
     lake_proximity |-> Get(local["lake_proximity"])]

AnalyzeLocationStage(choice) ==
    /\ pc = "analyze_location"
    /\ LET answer == GenerateContent(LocationPrompt, choice)
           r == analyze_location(answer)
       IN  /\ calls' = Append(calls, "analyze_location")
           /\ exchange' = Some([prompt |-> LocationPrompt, answer |-> answer])
           /\ log' = log \o r.log
           /\ local' = [local EXCEPT !["location_analysis"] = r.value]
           /\ session' = [session EXCEPT !["location_analysis"] = r.value]
           /\ fresh' = fresh \cup {"location_analysis"}
    /\ pc' = "analyze_slope"
    /\ UNCHANGED <<ref, messages>>

SlopePrompt ==
    [task |-> "slope",
     slope |-> Get(local["slope_data"]).average_slope,
     distance |-> Get(local["slope_data"]).average_distance,
     lake_proximity |-> Get(local["lake_proximity"])]

\* the SlopeAnalysis stored when analyze_slope returned None
FailedSlopeAnalysis ==
    [summary |-> "Slope analysis failed due to processing error.",
     recommendations |-> <<>>,
     verification_needed |-> <<"Slope data processing">>]

AnalyzeSlopeStage(choice) ==
    /\ pc = "analyze_slope"
    /\ LET answer == GenerateContent(SlopePrompt, choice)
           r == analyze_slope(answer)
       IN  /\ calls' = Append(calls, "analyze_slope")
           /\ exchange' = Some([prompt |-> SlopePrompt, answer |-> answer])
           /\ log' = log \o r.log
           /\ local' = [local EXCEPT !["slope_analysis"] = r.value]
           /\ session' = [session EXCEPT !["slope_analysis"] =
                             IF r.value # None THEN r.value
                             ELSE Some(FailedSlopeAnalysis)]
           /\ fresh' = fresh \cup {"slope_analysis"}
    /\ pc' = "generate_feasibility_report"
    /\ UNCHANGED <<ref, messages>>

ReportPrompt ==
    [task |-> "report",
     address |-> Get(local["address_str"]),
     location_analysis |-> local["location_analysis"],
     slope_analysis |-> local["slope_analysis"],
     slope_data |-> Get(local["slope_data"]),
     environmental_hazards |-> Get(local["environmental_check"]),
     lake_proximity |-> Get(local["lake_proximity"]),
     hazard_layers |-> hazard_layer_list(Get(local["environmental_check"]))]

GenerateReportStage(choice) ==
    /\ pc = "generate_feasibility_report"
    /\ LET answer == GenerateContent(ReportPrompt, choice)
           r == generate_feasibility_report(Get(local["environmental_check"]),
                                            Get(local["slope_data"]), answer)
       IN  /\ calls' = Append(calls, "generate_feasibility_report")
           /\ exchange' = Some([prompt |-> ReportPrompt, answer |-> answer])
           /\ log' = log \o r.log
           /\ session' = [session EXCEPT !["feasibility_report"] = r.value]
           /\ fresh' = fresh \cup {"feasibility_report"}
    /\ pc' = "idle"
    /\ local' = NoLocals
    /\ UNCHANGED <<ref, messages>>

-----------------------------------------------------------------------------
(* app.main, the chat tab *)

\* what the user may type into chat_input
Questions == {"", "What does the seismic hazard mean?", "Is it safe?"}

\* the questions drawn in the runs over all reference data
PipelineQuestions == {"", "Is it safe?"}

\* chat_with_report: the text of the answer, or None when the model is not
\* initialised or generate_content raises
ChatOutcomes == {"text", "error"}
chat_with_report(report, user_query, chat_history, outcome) ==
    IF outcome = "error" THEN None ELSE Some("answer")

\* the questions asked so far: [q for q, _ in chat_history]
Asked(chat_history) == {chat_history[i][1] : i \in 1..Len(chat_history)}

\* line 479: the chat input and the Clear button were drawn by the last script run
ChatDrawn == pc = "idle" /\ session["feasibility_report"] # None

\* a slip: the test for a question asked before is missing
HandleQuestionAgain(user_question, outcome) ==
    /\ ChatDrawn
    /\ IF user_question # ""
       THEN LET answer == chat_with_report(Get(session["feasibility_report"]),
                                           user_question, session["chat_history"], outcome)
            IN  session' = [session EXCEPT !["chat_history"] =
                                Append(@, <<user_question, answer>>)]
       ELSE UNCHANGED session
    /\ UNCHANGED <<ref, pc, local, calls, messages, log, fresh, exchange>>

\* handle_question, the on_change callback of chat_input
HandleQuestion(user_question, outcome) ==
    /\ ChatDrawn
    /\ IF user_question # "" /\ user_question \notin Asked(session["chat_history"])
       THEN LET answer == chat_with_report(Get(session["feasibility_report"]),
                                           user_question, session["chat_history"], outcome)
            IN  session' = [session EXCEPT !["chat_history"] =
                                Append(@, <<user_question, answer>>)]
       ELSE UNCHANGED session
    /\ UNCHANGED <<ref, pc, local, calls, messages, log, fresh, exchange>>

\* lines 483-485: the Clear Chat History button
ClearChatHistory ==
    /\ ChatDrawn
    /\ session' = [session EXCEPT !["chat_history"] = <<>>]
    /\ UNCHANGED <<ref, pc, local, calls, messages, log, fresh, exchange>>

\* display_report renders the report: its required keys are all set (a stored
\* FeasibilityReport always has location_analysis and slope_analysis attributes)
Renders ==
    /\ pc = "idle"
    /\ \A k \in {"coordinates", "property", "feasibility_report"} : session[k] # None

-----------------------------------------------------------------------------
(* Specifications *)

\* the reference data of the pipeline runs
PipelineParcels ==
    { <<[PIN |-> "1001", geometry |-> <<0, 2500>>],
        [PIN |-> "1002", geometry |-> <<2400, 2600>>]>>,
      <<[PIN |-> "1002", geometry |-> <<2400, 2600>>],
        [PIN |-> "1001", geometry |-> <<0, 2500>>]>> }

PipelineContours ==
    { <<>>,
      <<[Elevation |-> 100, geometry |-> <<10, 10>>],
        [Elevation |-> 101, geometry |-> <<50, 50>>]>>,
      <<[Elevation |-> 110, geometry |-> <<11, 12>>],
        [Elevation |-> 100, geometry |-> <<10, 10>>]>> }

NoHazards == [k \in HazardKinds |-> <<>>]

PipelineHazards ==
    { NoHazards,
      [NoHazards EXCEPT !["erosion"] = NearLake],
      [NoHazards EXCEPT !["erosion"] = <<[geometry |-> <<0, 251>>]>>,
                        !["seismic"] = <<[geometry |-> <<-100, 2700>>]>>] }

InitIdle ==
    /\ exchange = None
    /\ session = InitSession
    /\ pc = "idle"
    /\ local = NoLocals
    /\ calls = <<>>
    /\ messages = <<>>
    /\ log = <<>>
    /\ fresh = {}

Init ==
    /\ fileStatus \in FileStates
    /\ parcels \in PipelineParcels
    /\ contours \in PipelineContours
    /\ hazards \in PipelineHazards
    /\ sortKind \in SortKinds
    /\ InitIdle

Next ==
    \/ \E street \in Streets, zip \in Zips : Analyze(street, zip)
    \/ ExtractPropertyStage
    \/ CalculateSlopeStage
    \/ CheckHazardsStage
    \/ LakeProximityStage
    \/ \E choice \in PipelineAnalysisChoices : AnalyzeLocationStage(choice)
    \/ \E choice \in PipelineAnalysisChoices : AnalyzeSlopeStage(choice)
    \/ \E choice \in PipelineReportChoices : GenerateReportStage(choice)
    \/ \E user_question \in PipelineQuestions, outcome \in ChatOutcomes :
          HandleQuestion(user_question, outcome)
    \/ ClearChatHistory

Spec == Init /\ [][Next]_vars

\* analyses and chat over one set of reference data, with every question
InitChat ==
    /\ fileStatus \in FileStates
    /\ parcels = <<[PIN |-> "1001", geometry |-> <<0, 2500>>]>>
    /\ contours = <<[Elevation |-> 100, geometry |-> <<10, 10>>],
                    [Elevation |-> 101, geometry |-> <<50, 50>>]>>
    /\ hazards = [NoHazards EXCEPT !["erosion"] = NearLake]
    /\ sortKind = "keeps order"
    /\ InitIdle

SpecChat ==
    InitChat
    /\ [][\/ \E street \in Streets, zip \in Zips : Analyze(street, zip)
          \/ ExtractPropertyStage
          \/ CalculateSlopeStage
          \/ CheckHazardsStage
          \/ LakeProximityStage
          \/ \E choice \in PipelineAnalysisChoices : AnalyzeLocationStage(choice)
          \/ \E choice \in PipelineAnalysisChoices : AnalyzeSlopeStage(choice)
          \/ \E choice \in PipelineReportChoices : GenerateReportStage(choice)
          \/ \E user_question \in Questions, outcome \in ChatOutcomes :
                HandleQuestion(user_question, outcome)
          \/ ClearChatHistory]_vars

\* file states whose faults all lie in the given files
FaultsIn(files) == {st \in FileStates : \A f \in Files \ files : st[f] = "ok"}

\* the state of a run that geocoded the address to loc
Geocoded(loc) ==
    /\ calls = <<"geocode_address">>
    /\ messages = <<"success: Geocoded Address">>
    /\ fresh = {"coordinates", "address"}
    /\ local = [NoLocals EXCEPT !["address_str"] = Some(AddressStr("1 Main St", "")),
                                !["coordinates"] = Some(loc)]
    /\ session = [InitSession EXCEPT !["coordinates"] = Some(loc),
                                     !["address"] = Some(AddressStr("1 Main St", ""))]

\* the state of a run that located parcel p
Located(p) ==
    LET loc == [latitude |-> 47, longitude |-> p.geometry[1] + 1]
        prop == Property(p.PIN, p.geometry)
    IN  /\ parcels = <<p>>
        /\ calls = <<"geocode_address", "extract_property">>
        /\ messages = <<"success: Geocoded Address">>
        /\ fresh = {"coordinates", "address", "property"}
        /\ local = [NoLocals EXCEPT !["address_str"] = Some(AddressStr("1 Main St", "")),
                                    !["coordinates"] = Some(loc),
                                    !["property_data"] = Some(prop)]
        /\ session = [InitSession EXCEPT !["coordinates"] = Some(loc),
                                         !["address"] = Some(AddressStr("1 Main St", "")),
                                         !["property"] = Some(prop)]

\* extract_property on every parcel dataset and location
InitLocate ==
    /\ exchange = None
    /\ fileStatus \in FaultsIn({PROPERTY_FILE})
    /\ parcels \in ParcelDatasets
    /\ contours = <<>>
    /\ hazards = NoHazards
    /\ sortKind = "keeps order"
    /\ pc = "extract_property"
    /\ log = <<>>
    /\ \E loc \in Locations : Geocoded(loc)

SpecLocate == InitLocate /\ [][ExtractPropertyStage]_vars

\* calculate_slope on every contour dataset, parcel and erosion layer
InitSlope ==
    /\ exchange = None
    /\ fileStatus \in FaultsIn({CONTOUR_FILE, "erosion"})
    /\ contours \in ContourDatasets
    /\ hazards \in {[NoHazards EXCEPT !["erosion"] = e] : e \in ErosionOptions}
    /\ sortKind \in SortKinds
    /\ pc = "calculate_slope"
    /\ log = <<>>
    /\ \E p \in ParcelPool : Located(p)

SpecSlope == InitSlope /\ [][CalculateSlopeStage]_vars

\* check_environmental_hazards on every hazard configuration and parcel
InitHazards ==
    /\ exchange = None
    /\ fileStatus \in FaultsIn(HazardKinds)
    /\ contours = <<>>
    /\ hazards \in HazardConfigs
    /\ sortKind = "keeps order"
    /\ pc = "check_environmental_hazards"
    /\ log = <<"warning: insufficient contour intersections">>
    /\ \E p \in ParcelPool :
         /\ parcels = <<p>>
         /\ calls = <<"geocode_address", "extract_property", "calculate_slope">>
         /\ messages = <<"success: Geocoded Address">>
         /\ fresh = {"coordinates", "address", "property", "slope_data"}
         /\ LET loc == [latitude |-> 47, longitude |-> p.geometry[1] + 1]
                prop == Property(p.PIN, p.geometry)
            IN  /\ local = [NoLocals EXCEPT
                              !["address_str"] = Some(AddressStr("1 Main St", "")),
                              !["coordinates"] = Some(loc),
                              !["property_data"] = Some(prop),
                              !["slope_data"] = Some(FlatSlopeData)]
                /\ session = [InitSession EXCEPT
                              !["coordinates"] = Some(loc),
                              !["address"] = Some(AddressStr("1 Main St", "")),
                              !["property"] = Some(prop),
                              !["slope_data"] = Some(FlatSlopeData)]

SpecHazards == InitHazards /\ [][CheckHazardsStage]_vars

\* calculate_slope and check_environmental_hazards on the degenerate parcels
InitDegenerate ==
    /\ exchange = None
    /\ fileStatus \in FaultsIn({CONTOUR_FILE} \cup HazardKinds)
    /\ contours \in PipelineContours
    /\ hazards \in HazardConfigs
    /\ sortKind = "keeps order"
    /\ pc = "calculate_slope"
    /\ log = <<>>
    /\ \E p \in DegenerateParcels : Located(p)

SpecDegenerate == InitDegenerate /\ [][CalculateSlopeStage \/ CheckHazardsStage]_vars

\* reference data of the runs that reach the Gemini model: average slopes of 0, of
\* 25 and of 26 degrees; no hazard, a steep-slope layer over the parcel, or an
\* erosion polygon 50 m from it
NarrativeContours ==
    { <<>>,
      <<[Elevation |-> 100, geometry |-> <<10, 10>>],
        [Elevation |-> 107, geometry |-> <<40, 40>>]>>,
      <<[Elevation |-> 100, geometry |-> <<10, 10>>],
        [Elevation |-> 110, geometry |-> <<50, 50>>]>> }

NarrativeHazards ==
    { NoHazards,
      [NoHazards EXCEPT !["steep_slope"] = <<[geometry |-> <<-100, 2700>>]>>],
      [NoHazards EXCEPT !["erosion"] = NearLake] }

\* the state of a run on parcel 1001 after lake_proximity was computed
InitNarrative ==
    /\ exchange = None
    /\ fileStatus = [f \in Files |-> "ok"]
    /\ parcels = <<[PIN |-> "1001", geometry |-> <<0, 2500>>]>>
    /\ contours \in NarrativeContours
    /\ hazards \in NarrativeHazards
    /\ sortKind = "keeps order"
    /\ pc = "analyze_location"
    /\ calls = <<"geocode_address", "extract_property", "calculate_slope",
                 "check_environmental_hazards">>
    /\ messages = <<"success: Geocoded Address">>
    /\ fresh = {"coordinates", "address", "property", "slope_data", "environmental_check"}
    /\ LET loc == [latitude |-> 47, longitude |-> 10]
           prop == Property("1001", <<0, 2500>>)
           slope == calculate_slope(prop)
           check == check_environmental_hazards(prop)
           lake == LakeProximity(RowsToCrs(hazards["erosion"]), ToCrs(<<0, 2500>>))
       IN  /\ log = slope.log \o check.log
           /\ local = [NoLocals EXCEPT
                         !["address_str"] = Some(AddressStr("1 Main St", "")),
                         !["coordinates"] = Some(loc),
                         !["property_data"] = Some(prop),
                         !["slope_data"] = slope.value,
                         !["environmental_check"] = check.value,
                         !["lake_proximity"] = Some(lake)]
           /\ session = [InitSession EXCEPT
                         !["coordinates"] = Some(loc),
                         !["address"] = Some(AddressStr("1 Main St", "")),
                         !["property"] = Some(prop),
                         !["slope_data"] = slope.value,
                         !["environmental_check"] = check.value]

\* the three calls of the Gemini model on every answer it may give
SpecNarrative ==
    InitNarrative
    /\ [][\/ \E choice \in AnalysisChoices : AnalyzeLocationStage(choice)
          \/ \E choice \in AnalysisChoices : AnalyzeSlopeStage(choice)
          \/ \E choice \in ReportChoices : GenerateReportStage(choice)]_vars

\* the note left in the log when the polygons of a hazard layer are replaced on disk
LayerEdited ==
    [k \in HazardKinds |->
        CASE k = "erosion"         -> "note: erosion layer replaced"
          [] k = "potential_slide" -> "note: potential_slide layer replaced"
          [] k = "seismic"         -> "note: seismic layer replaced"
          [] k = "steep_slope"     -> "note: steep_slope layer replaced"
          [] k = "watercourse"     -> "note: watercourse layer replaced"]

\* between two analyses of the same parcel the polygons of one hazard layer are
\* replaced (the file stays loadable or unloadable as it was); the next analysis
\* reaches the hazard check again, the session still holding the earlier result
ReplaceLayer(kind, rows) ==
    /\ pc = "lake_proximity"
    /\ \A k \in HazardKinds : LayerEdited[k] \notin Range(log)
    /\ rows # hazards[kind]
    /\ hazards' = [hazards EXCEPT ![kind] = rows]
    /\ log' = Append(log, LayerEdited[kind])
    /\ pc' = "check_environmental_hazards"
    /\ calls' = SubSeq(calls, 1, Len(calls) - 1)
    /\ local' = [local EXCEPT !["environmental_check"] = None]
    /\ UNCHANGED <<fileStatus, parcels, contours, sortKind, session, messages, fresh,
                   exchange>>

\* the hazard check of one parcel before and after one layer was replaced
SpecLayers ==
    InitHazards /\ [][CheckHazardsStage
                      \/ \E kind \in HazardKinds, rows \in LayerOptions :
                             ReplaceLayer(kind, rows)]_vars

-----------------------------------------------------------------------------
(* Properties *)

Called(f) == f \in Range(calls)

\* the located parcel in the working CRS
ParcelGeom == ToCrs(Shape(Get(session["property"]).geometry))

\* the contours of the dataset that cross the parcel itself
CrossingContours ==
    {i \in 1..Len(contours) : Intersects(ToCrs(contours[i].geometry), ParcelGeom)}

\* the contours of the dataset within 10 m of the parcel that do not cross it
NearbyContours ==
    {i \in 1..Len(contours) :
        /\ i \notin CrossingContours
        /\ Intersects(ToCrs(contours[i].geometry), Buffer(ParcelGeom, 40))}

C2_LoadFailurePropagated ==
    (Called("calculate_slope") /\ fileStatus[CONTOUR_FILE] = "unreadable") =>
        /\ session["slope_data"] = None
        /\ "error: Failed to calculate slope data." \in Range(messages)

\* C3: when the contour dataset lacks the Elevation column, slope estimation fails
\* and produces no SlopeData
C3_MissingElevationFails ==
    (Called("calculate_slope") /\ fileStatus[CONTOUR_FILE] = "no_column") =>
        session["slope_data"] = None

\* C4: check_environmental_hazards returns an EnvironmentalCheck exactly when all
\* five layers load; when any layer fails to load nothing is returned
C4_NoPartialHazards ==
    Called("check_environmental_hazards") =>
        IF \E k \in HazardKinds : fileStatus[HAZARD_FILES[k]] = "unreadable"
        THEN session["environmental_check"] = None /\ pc = "idle"
        ELSE session["environmental_check"] # None

\* C4 witness: the last layer fails to load after a layer with full overlap was
\* evaluated, and no EnvironmentalCheck is stored
C4_Witness ==
    /\ Called("check_environmental_hazards")
    /\ fileStatus[HAZARD_FILES["watercourse"]] = "unreadable"
    /\ hazards["erosion"] = <<[geometry |-> <<-100, 2700>>]>>
    /\ session["environmental_check"] = None

\* C5: each flag is true iff the summed intersection area over the parcel area is
\* strictly greater than 0.1
C5_FlagIffOverTenth ==
    session["environmental_check"] # None =>
        \A k \in HazardKinds :
            Get(session["environmental_check"])[k]
                <=> (10 * IntersectionArea(RowsToCrs(hazards[k]), ParcelGeom)
                        > Area(ParcelGeom))

\* C5 witness: parcel 1001 with a layer covering exactly 10% (flag false) and a
\* layer covering all of it (flag true)
C5_Witness ==
    /\ session["environmental_check"] # None
    /\ Get(session["property"]).parcel_id = "1001"
    /\ hazards["seismic"] = <<[geometry |-> <<0, 250>>]>>
    /\ hazards["steep_slope"] = <<[geometry |-> <<-100, 2700>>]>>
    /\ ~Get(session["environmental_check"]).seismic
    /\ Get(session["environmental_check"]).steep_slope

PipelineOrder ==
    <<"geocode_address", "extract_property", "calculate_slope",
      "check_environmental_hazards", "analyze_location", "analyze_slope",
      "generate_feasibility_report">>

StageError ==
    <<"error: Failed to geocode address.",
      "error: No property found at the given coordinates.",
      "error: Failed to calculate slope data.",
      "error: Failed to check environmental hazards.">>

\* C6: once a stage has failed, its error message is emitted, the run is over and
\* no later stage was invoked
C6_FailureStopsRun ==
    /\ \A i \in 1..Len(StageError) :
         StageError[i] \in Range(messages) =>
             pc = "idle" /\ calls = SubSeq(PipelineOrder, 1, i)
    /\ (pc = "idle" /\ calls # <<>> /\ calls # PipelineOrder) =>
         /\ Len(calls) <= Len(StageError)
         /\ StageError[Len(calls)] \in Range(messages)

\* C6 witness: a run that failed in the parcel lookup, after an earlier run that
\* produced a report
C6_Witness ==
    /\ pc = "idle"
    /\ "error: No property found at the given coordinates." \in Range(messages)
    /\ calls = SubSeq(PipelineOrder, 1, 2)
    /\ session["feasibility_report"] # None

\* the session keys whose values display_report shows or that belong to the report
ReportKeys ==
    {"coordinates", "property", "slope_data", "environmental_check", "feasibility_report"}

\* C7: whenever display_report renders a report, the coordinates, property,
\* slope_data, environmental_check and feasibility_report come from the same run
C7_ReportFromOneRun == Renders => ReportKeys \subseteq fresh

\* the parcel rows whose geometry contains the geocoded point
ContainingRows ==
    LET lon == Get(session["coordinates"]).longitude
    IN  {i \in 1..Len(parcels) :
            parcels[i].geometry[1] < lon /\ lon < parcels[i].geometry[2]}

\* C8: with the parcel dataset loaded, extract_property returns a Property iff some
\* parcel contains the point, and it is the first such row with its PIN unchanged
C8_FirstContainingParcel ==
    (Called("extract_property") /\ fileStatus[PROPERTY_FILE] = "ok") =>
        IF ContainingRows = {}
        THEN session["property"] = None /\ pc = "idle"
        ELSE \E i \in ContainingRows :
                /\ \A j \in ContainingRows : i <= j
                /\ session["property"] =
                       Some([parcel_id |-> parcels[i].PIN,
                             geometry |-> [type |-> "Polygon",
                                           coordinates |-> parcels[i].geometry]])

\* C8 witness: two rows contain the point, the first row of the dataset does not,
\* and a Property was returned
C8_Witness ==
    /\ Called("extract_property")
    /\ fileStatus[PROPERTY_FILE] = "ok"
    /\ Cardinality(ContainingRows) >= 2
    /\ 1 \notin ContainingRows
    /\ session["property"] # None

\* C9: a parcel dataset that cannot be loaded or lacks the PIN column is never
\* reported as "no property found"
C9_DatasetFailureDistinct ==
    (Called("extract_property") /\ fileStatus[PROPERTY_FILE] # "ok") =>
        "error: No property found at the given coordinates." \notin Range(messages)

\* C10: with fewer than two contours crossing the parcel, calculate_slope returns
\* average_slope = 0 and max_slope = 0 as a normal result
C10_FlatFallback ==
    (/\ Called("calculate_slope")
     /\ fileStatus[CONTOUR_FILE] = "ok"
     /\ Cardinality(CrossingContours) < 2) =>
        /\ session["slope_data"] # None
        /\ Get(session["slope_data"]).average_slope = 0
        /\ Get(session["slope_data"]).max_slope = 0
        /\ pc = "check_environmental_hazards"
        /\ \A e \in Range(log) : e # "error: calculating slope"

\* C10 witness: one contour crosses the parcel, the buffer retry selects a second
\* one within 10 m, and the result is flat
C10_Witness ==
    /\ Called("calculate_slope")
    /\ fileStatus[CONTOUR_FILE] = "ok"
    /\ Cardinality(CrossingContours) = 1
    /\ NearbyContours # {}
    /\ session["slope_data"] = Some(FlatSlopeData)

Logged(e) == e \in Range(log)

\* the erosion layer is readable and holds a polygon within 100 m of the parcel
NearErosion ==
    /\ fileStatus[HAZARD_FILES["erosion"]] = "ok"
    /\ \E i \in 1..Len(hazards["erosion"]) :
          Intersects(ToCrs(hazards["erosion"][i].geometry), Buffer(ParcelGeom, 400))

\* calculate_slope returned a SlopeData
SlopeReturned == Called("calculate_slope") /\ session["slope_data"] # None

\* the returned SlopeData was aggregated from accepted pairs: neither a fallback
\* nor the value returned after an exception
FromAcceptedPairs ==
    /\ SlopeReturned
    /\ ~Logged("warning: insufficient contour intersections")
    /\ ~Logged("warning: no valid slopes")
    /\ ~Logged("error: calculating slope")

\* C11 (as stated): every SlopeData returned for a parcel within 100 m of an
\* erosion polygon with average_slope below 5 degrees has max_slope of at least
\* 15 degrees, a zero average included
C11_FlatNearLakeCorrected ==
    (SlopeReturned /\ NearErosion) =>
        (Get(session["slope_data"]).average_slope < 300
            => Get(session["slope_data"]).max_slope >= 900)

\* C11 (amended): every SlopeData aggregated from at least one accepted pair for a
\* parcel within 100 m of an erosion polygon with average_slope below 5 degrees,
\* zero included, has max_slope of at least 15 degrees; the flat fallbacks are
\* returned before the correction and keep max_slope = 0
C11_ComputedNearLakeCorrected ==
    /\ (FromAcceptedPairs /\ NearErosion) =>
          (Get(session["slope_data"]).average_slope < 300
              => Get(session["slope_data"]).max_slope >= 900)
    /\ (SlopeReturned /\ (\/ Logged("warning: insufficient contour intersections")
                          \/ Logged("warning: no valid slopes"))) =>
          Get(session["slope_data"]).max_slope = 0

\* C11 witness: near the erosion layer, a pair was accepted, the average is zero
\* and max_slope was raised to 15 degrees
C11_Witness ==
    /\ FromAcceptedPairs
    /\ NearErosion
    /\ Get(session["slope_data"]).average_slope = 0
    /\ Get(session["slope_data"]).max_slope = 900

\* the clipped segments of the located parcel, sorted by elevation
Segments == SortByElevation(ClippedSegments(RowsToCrs(contours), ParcelGeom))

\* the accepted pairs of the located parcel, as <<slope, distance>>
Samples == PairSamples(Segments, 1)

SampleSlopes == [i \in 1..Len(Samples) |-> Samples[i][1]]
SampleDistances == [i \in 1..Len(Samples) |-> Samples[i][2]]

\* C12: when at least one pair is accepted, average_slope and average_distance are
\* the means over the accepted pairs in every case, and max_slope is 15 degrees
\* exactly when the parcel is near the erosion layer, the average is below 5 and
\* the maximum below 15 degrees, and the maximum accepted slope otherwise
C12_AggregateAndCorrection ==
    (/\ Called("calculate_slope")
     /\ fileStatus[CONTOUR_FILE] = "ok"
     /\ Samples # <<>>) =>
        /\ session["slope_data"] # None
        /\ LET sd == Get(session["slope_data"])
               mean == Sum(SampleSlopes) \div Len(Samples)
               top == CHOOSE m \in Range(SampleSlopes) :
                          \A x \in Range(SampleSlopes) : x <= m
           IN  /\ sd.average_slope = mean
               /\ sd.average_distance = Sum(SampleDistances) \div Len(Samples)
               /\ sd.max_slope = IF NearErosion /\ mean < 300 /\ top < 900
                                 THEN 900 ELSE top

\* the fields of a SlopeData that hold the measurements
MeasurementFields == {"average_slope", "max_slope", "average_distance"}

\* C13: when the lakefront correction was applied or the extreme-slope warning was
\* raised, the returned SlopeData carries it: it holds more than the three
\* measurements
C13_CaveatsAttached ==
    (SlopeReturned /\ (\/ Logged("info: adjusting max_slope")
                       \/ Logged("warning: extreme slope"))) =>
        DOMAIN Get(session["slope_data"]) # MeasurementFields

\* C14: a SlopeData that is not a data-sparsity fallback (it was aggregated from
\* accepted pairs, or returned after an internal error) differs from the value the
\* fallback returns
C14_FallbackDistinguishable ==
    (/\ SlopeReturned
     /\ ~Logged("warning: insufficient contour intersections")
     /\ ~Logged("warning: no valid slopes")) =>
        session["slope_data"] # Some(SlopeData(0, 0, 0))

\* C15: when the buffer retry is taken and at least two contours lie within 10 m of
\* the parcel, the contours near the parcel yield segments too, so at least two
\* segments take part and the result is not the insufficient-contours fallback
C15_RetryClipsToBuffer ==
    (/\ Called("calculate_slope")
     /\ fileStatus[CONTOUR_FILE] = "ok"
     /\ Cardinality(CrossingContours) < 2
     /\ Cardinality(CrossingContours \cup NearbyContours) >= 2) =>
        ~Logged("warning: insufficient contour intersections")

\* the retries of the contour selection in the current run
RetryCount ==
    Cardinality({i \in 1..Len(log) : log[i] = "warning: applying 10m buffer"})

\* C16: the contour selection is retried at most once in a run, exactly when the
\* contour dataset was loaded and fewer than two contours cross the parcel, and no
\* stage of the pipeline is invoked twice in a run
C16_SingleRetry ==
    /\ RetryCount <= 1
    /\ RetryCount = 1 =>
          /\ Called("calculate_slope")
          /\ fileStatus[CONTOUR_FILE] # "unreadable"
          /\ Cardinality(CrossingContours) < 2
    /\ (Called("calculate_slope") /\ fileStatus[CONTOUR_FILE] # "unreadable"
          /\ Cardinality(CrossingContours) < 2) => RetryCount = 1
    /\ Len(calls) <= Len(PipelineOrder)
    /\ \A i \in 1..Len(calls) : calls[i] = PipelineOrder[i]

\* C16 witness: a run that took the retry, found fewer than two contours again,
\* and went on to the end of the pipeline
C16_Witness ==
    /\ RetryCount = 1
    /\ Logged("warning: insufficient contour intersections")
    /\ calls = PipelineOrder
    /\ pc = "idle"

RECURSIVE SumAt(_, _)
SumAt(f, S) ==
    IF S = {} THEN 0
    ELSE LET x == CHOOSE x \in S : TRUE IN f[x] + SumAt(f, S \ {x})

\* the centroid distance and the slope of each pair of adjacent segments
AdjacentDist ==
    [i \in 1..(Len(Segments) - 1) |->
        LET a == Segments[i].geometry
            b == Segments[i + 1].geometry
            d == ((a[1] + a[2]) \div 2) - ((b[1] + b[2]) \div 2)
        IN  IF d >= 0 THEN d ELSE -d]

AdjacentSlope ==
    [i \in 1..(Len(Segments) - 1) |->
        LET rise == Segments[i + 1].Elevation - Segments[i].Elevation
        IN  SlopeDeg(IF rise >= 0 THEN rise ELSE -rise, AdjacentDist[i])]

\* the adjacent pairs whose centroid distance lies in (0.5 m, 1000 m]
InRangePairs == {i \in DOMAIN AdjacentDist : 2 < AdjacentDist[i] /\ AdjacentDist[i] <= 4000}

\* C17: the segments are in ascending elevation order, and the result is made of
\* exactly the adjacent pairs with 0.5 m < d <= 1000 m: with none of them the
\* no-valid-slopes fallback is returned, otherwise average_slope and
\* average_distance are the means over these pairs alone
C17_AdjacentPairsInRange ==
    (/\ Called("calculate_slope")
     /\ fileStatus[CONTOUR_FILE] = "ok"
     /\ fileStatus[HAZARD_FILES["erosion"]] = "ok") =>
        /\ \A i \in DOMAIN AdjacentDist : Segments[i].Elevation <= Segments[i + 1].Elevation
        /\ IF Len(Segments) < 2
           THEN Logged("warning: insufficient contour intersections")
           ELSE IF InRangePairs = {}
           THEN /\ Logged("warning: no valid slopes")
                /\ session["slope_data"] = Some(SlopeData(0, 0, 0))
           ELSE /\ FromAcceptedPairs
                /\ Get(session["slope_data"]).average_distance
                       = SumAt(AdjacentDist, InRangePairs) \div Cardinality(InRangePairs)
                /\ Get(session["slope_data"]).average_slope
                       = SumAt(AdjacentSlope, InRangePairs) \div Cardinality(InRangePairs)

\* C17 witness: one adjacent pair at exactly 0.5 m is rejected, one at exactly
\* 1000 m is accepted, and the result is made of the second alone
C17_Witness ==
    /\ FromAcceptedPairs
    /\ \E i \in DOMAIN AdjacentDist : AdjacentDist[i] = 2
    /\ \E i \in DOMAIN AdjacentDist : AdjacentDist[i] = 4000
    /\ Get(session["slope_data"]).average_distance = 4000

\* the stage about to run hands its Property on unchanged
PropertyKept ==
    (pc \in {"calculate_slope", "check_environmental_hazards"} /\ pc' # "idle") =>
        /\ local'["property_data"] = local["property_data"]
        /\ session'["property"] = session["property"]

C20_StageOrder ==
    /\ Len(calls) <= Len(PipelineOrder)
    /\ \A i \in 1..Len(calls) : calls[i] = PipelineOrder[i]
    /\ Called("extract_property") =>
          "coordinates" \in fresh /\ session["coordinates"] # None
    /\ (Called("calculate_slope") \/ Called("check_environmental_hazards")) =>
          "property" \in fresh /\ session["property"] # None
    /\ (\/ Called("analyze_location")
        \/ Called("analyze_slope")
        \/ Called("generate_feasibility_report")) =>
          /\ {"slope_data", "environmental_check"} \subseteq fresh
          /\ session["slope_data"] # None
          /\ session["environmental_check"] # None

\* C20 witness: a run that went through all seven stages
C20_Witness ==
    /\ calls = PipelineOrder
    /\ SessionKeys \ {"feasibility_report", "chat_history"} \subseteq fresh
    /\ session["location_analysis"] # None

\* C21: the flag of a hazard kind depends only on the layer of that kind and on the
\* parcel: when the hazard check runs again after the polygons of one layer were
\* replaced, the flag of every other kind is the one the earlier check returned,
\* whether the replaced layer comes before or after it in the loop
C21_FlagsIndependent ==
    [][(/\ pc = "check_environmental_hazards"
        /\ session["environmental_check"] # None
        /\ session'["environmental_check"] # None)
       => \A k \in HazardKinds :
              ~Logged(LayerEdited[k]) =>
                  Get(session'["environmental_check"])[k]
                      = Get(session["environmental_check"])[k]]_vars

\* C21 witness: the first layer of the loop was replaced by one covering the parcel
\* and the check ran again: erosion is flagged, the later seismic layer with 5% of
\* parcel 1001 is not
C21_Witness ==
    /\ pc = "lake_proximity"
    /\ Logged(LayerEdited["erosion"])
    /\ Get(session["property"]).parcel_id = "1001"
    /\ hazards["erosion"] = <<[geometry |-> <<-100, 2700>>]>>
    /\ hazards["seismic"] = <<[geometry |-> <<0, 125>>]>>
    /\ session["environmental_check"] # None
    /\ Get(session["environmental_check"])["erosion"]
    /\ ~Get(session["environmental_check"])["seismic"]

\* C22: the parcel geometry is a valid polygon when calculate_slope and
\* check_environmental_hazards compute intersections and areas with it
C22_GeometryValidWhenUsed ==
    (Called("calculate_slope") \/ Called("check_environmental_hazards")) =>
        IsValid(ParcelGeom)

\* C30: for a parcel of projected area 0 whose five layers all load, the hazard check
\* returns an EnvironmentalCheck (no division fails) with all five flags false
C30_ZeroAreaParcel ==
    (/\ Called("check_environmental_hazards")
     /\ Area(ParcelGeom) = 0
     /\ \A k \in HazardKinds : fileStatus[HAZARD_FILES[k]] = "ok") =>
        /\ session["environmental_check"] # None
        /\ \A k \in HazardKinds : ~Get(session["environmental_check"])[k]

\* C30 witness: the parcel of area 0 lies inside an erosion polygon and a seismic
\* polygon touches it; the check ran and flagged nothing
C30_Witness ==
    /\ Called("check_environmental_hazards")
    /\ Get(session["property"]).parcel_id = "1005"
    /\ Area(ParcelGeom) = 0
    /\ hazards["erosion"] = <<[geometry |-> <<-100, 2700>>]>>
    /\ hazards["seismic"] # <<>>
    /\ session["environmental_check"] # None
    /\ ~Get(session["environmental_check"])["erosion"]

\* an exception is raised inside calculate_slope: the contour file does not load or
\* lacks the Elevation column, or the erosion file does not load after pairs were
\* accepted
SlopeRaises ==
    \/ fileStatus[CONTOUR_FILE] # "ok"
    \/ (Samples # <<>> /\ fileStatus[HAZARD_FILES["erosion"]] # "ok")

\* C28: calculate_slope never returns None: an exception inside it yields the flat
\* SlopeData, the message 'Failed to calculate slope data.' is never shown, and a
\* run that called calculate_slope goes on to the hazard check
C28_SlopeNeverNone ==
    /\ "error: Failed to calculate slope data." \notin Range(messages)
    /\ Called("calculate_slope") =>
          /\ session["slope_data"] # None
          /\ SlopeRaises => session["slope_data"] = Some(FlatSlopeData)
          /\ pc = "idle" => Called("check_environmental_hazards")

\* C28 witness: slopes above zero were computed, the erosion file did not load, the
\* flat SlopeData was returned and the hazard check was called
C28_Witness ==
    /\ Called("check_environmental_hazards")
    /\ fileStatus[CONTOUR_FILE] = "ok"
    /\ fileStatus[HAZARD_FILES["erosion"]] = "unreadable"
    /\ Samples # <<>>
    /\ \E i \in 1..Len(Samples) : SampleSlopes[i] > 0
    /\ session["slope_data"] = Some(FlatSlopeData)

\* C29: with two or more clipped segments and no accepted pair, calculate_slope
\* returns the flat SlopeData: no mean is taken, the erosion layer is not loaded
\* (no failure is logged when its file is unreadable) and max_slope is not raised
\* near the lake
C29_NoAcceptedPairFlat ==
    (/\ Called("calculate_slope")
     /\ fileStatus[CONTOUR_FILE] = "ok"
     /\ Len(Segments) >= 2
     /\ Samples = <<>>) =>
        /\ session["slope_data"] = Some(FlatSlopeData)
        /\ Logged("warning: no valid slopes")
        /\ ~Logged("error: loading GeoJSON")
        /\ ~Logged("error: calculating slope")
        /\ ~Logged("warning: near lake but flat")
        /\ ~Logged("info: adjusting max_slope")

\* C29 witness: two segments 0.25 m apart, no accepted pair, and the erosion file is
\* unreadable: the flat SlopeData is returned without an error
C29_Witness ==
    /\ Called("calculate_slope")
    /\ fileStatus[CONTOUR_FILE] = "ok"
    /\ fileStatus[HAZARD_FILES["erosion"]] = "unreadable"
    /\ Len(Segments) = 2
    /\ Samples = <<>>
    /\ session["slope_data"] = Some(FlatSlopeData)
    /\ Logged("warning: no valid slopes")

\* the request of the last call of the Gemini model and the JSON document of its
\* answer, when the answer held one
Prompt == Get(exchange).prompt
Answer == Get(exchange).answer
AnswerData == Get(Answer).body.data
AnswerHoldsJson == exchange # None /\ Answer # None /\ Get(Answer).body.json

\* the report of this run
Report == Get(session["feasibility_report"])
ReportReturned ==
    /\ exchange # None
    /\ Prompt.task = "report"
    /\ session["feasibility_report"] # None

C24_HazardLayersFromFlags ==
    ReportReturned =>
        /\ Len(Report.hazard_layers) = Cardinality(HazardKinds)
        /\ \A k \in HazardKinds :
             \E i \in 1..Len(Report.hazard_layers) :
                /\ Report.hazard_layers[i][1] = hazard_descriptions[k]
                /\ Report.hazard_layers[i][2] = "Present"
                      <=> Prompt.environmental_hazards[k]

\* the condition of lines 213-217 in the run of the report
SteepByAngle ==
    /\ ~Prompt.environmental_hazards["steep_slope"]
    /\ Prompt.slope_data.average_slope > 1500

EndsWith(list, item) == list # <<>> /\ list[Len(list)] = item

\* C25 (as stated): the verification_needed of a returned report ends with the
\* steep-slope item iff steep_slope is false and average_slope is above 25 degrees
C25_SteepItemIff ==
    ReportReturned =>
        (EndsWith(Report.verification_needed, SteepItem) <=> SteepByAngle)

\* C25 (amended): when steep_slope is false and average_slope is above 25 degrees
\* the verification_needed of a returned report is the list of the answer followed
\* by the steep-slope item; otherwise it is the list of the answer, unchanged
C25_SteepItemAppended ==
    ReportReturned =>
        Report.verification_needed =
            IF SteepByAngle
            THEN Append(AnswerData.verification_needed, SteepItem)
            ELSE AnswerData.verification_needed

\* C25 witness: steep_slope false, an average of 26 degrees, and an answer with one
\* item of its own
C25_Witness ==
    /\ ReportReturned
    /\ SteepByAngle
    /\ AnswerData.verification_needed = <<"Soil bearing capacity">>
    /\ Report.verification_needed = <<"Soil bearing capacity", SteepItem>>

\* what the function called last returned
Returned ==
    CASE Prompt.task = "location" -> local["location_analysis"]
      [] Prompt.task = "slope"    -> local["slope_analysis"]
      [] Prompt.task = "report"   -> session["feasibility_report"]

\* the lists of recommendations that parse_gemini_json_response normalises, as
\* paths into the JSON document
RecPaths(d) ==
    {<<k>> : k \in {"recommendations", "detailed_recommendations"} \cap DOMAIN d}
        \cup {<<k, "recommendations">> :
                k \in {"location_analysis", "slope_analysis"} \cap DOMAIN d}

At(d, path) == IF Len(path) = 1 THEN d[path[1]] ELSE d[path[1]][path[2]]

\* the answer is fenced once stripped
IsFenced(text) == text.open = "<fence>json" /\ text.close = "<fence>"

\* C26: parse_gemini_json_response raises ValueError unless the stripped text
\* starts with the json fence and ends with the fence; when it returns, in the four
\* lists every recommendation that started with '[High]' or '[Medium]' starts with
\* '[Critical]' or '[Major]', no recommendation starts with '[High]' or '[Medium]',
\* the others are unchanged, and normalising the result again changes nothing
C26_ParseNormalises ==
    (exchange # None /\ Answer # None) =>
        /\ ~IsFenced(Get(Answer)) =>
              /\ Returned = None
              /\ log[Len(log)] = ErrorLogged["ValueError"]
        /\ Returned # None =>
              /\ IsFenced(Get(Answer))
              /\ \A path \in RecPaths(AnswerData) :
                    LET given == At(AnswerData, path)
                        kept == At(Get(Returned), path)
                    IN  /\ Len(kept) = Len(given)
                        /\ \A i \in 1..Len(given) :
                              /\ ~StartsWith(kept[i], "[High]")
                              /\ ~StartsWith(kept[i], "[Medium]")
                              /\ StartsWith(given[i], "[High]") =>
                                    StartsWith(kept[i], "[Critical]")
                              /\ StartsWith(given[i], "[Medium]") =>
                                    StartsWith(kept[i], "[Major]")
                              /\ (/\ ~StartsWith(given[i], "[High]")
                                  /\ ~StartsWith(given[i], "[Medium]")) =>
                                    kept[i] = given[i]
              /\ NormalizeData(Get(Returned)) = Get(Returned)

\* C26 witness: a report parsed from an answer fenced inside whitespace, whose
\* second list of recommendations held '[Medium]' and '[High]' ones
C26_Witness ==
    /\ ReportReturned
    /\ Get(Answer).lead
    /\ AnswerData.detailed_recommendations
          = << <<"[Medium]", "[High]">>, <<"[High]", "[High]">> >>
    /\ Report.detailed_recommendations
          = << <<"[Major]", "[High]">>, <<"[Critical]", "[Critical]">> >>
    /\ Report.location_analysis.recommendations = Report.detailed_recommendations

ChatHistory == session["chat_history"]

\* C27: the questions of chat_history are pairwise distinct and non-empty; a step
\* that changes chat_history either appends exactly one pair, whose question is
\* non-empty and was not in the history, while a feasibility report is stored, or
\* empties the history
C27_ChatHistory ==
    /\ [](/\ \A i \in 1..Len(ChatHistory) : ChatHistory[i][1] # ""
          /\ \A i, j \in 1..Len(ChatHistory) :
                ChatHistory[i][1] = ChatHistory[j][1] => i = j)
    /\ [][session'["chat_history"] # session["chat_history"] =>
            \/ session'["chat_history"] = <<>>
            \/ /\ session["feasibility_report"] # None
               /\ Len(session'["chat_history"]) = Len(session["chat_history"]) + 1
               /\ SubSeq(session'["chat_history"], 1, Len(session["chat_history"]))
                     = session["chat_history"]
               /\ session'["chat_history"][Len(session'["chat_history"])][1]
                     \notin Asked(session["chat_history"]) \cup {""}]_vars

\* C27 witness: two questions were asked, the second one answered with None, and a
\* later analysis left no feasibility report
C27_Witness ==
    /\ Len(ChatHistory) = 2
    /\ ChatHistory[2][2] = None
    /\ pc = "idle"
    /\ session["feasibility_report"] = None

====
